---- MODULE Spec2Model ----
(***************************************************************************)
(* Free-courses API: the /resources/courses handler (search_courses) and   *)
(* the four platform adapters (Coursera, edX, Udemy, YouTube).             *)
(*                                                                         *)
(* Text is a sequence of one-character strings; a URL is a sequence of     *)
(* tokens (scheme, host, path).  Python's None is the value None below.    *)
(* A function that can raise returns a record [exc, courses]: exc is the   *)
(* name of the exception that escapes it, or "none".                       *)
(***************************************************************************)
EXTENDS Integers, Sequences, FiniteSets, TLC

\* ------------------------------------------------------------------ bounds
MaxBatch == 3          \* longest upstream batch handed to a parser
MaxRequests == 3       \* requests one process handles in a row

\* ------------------------------------------------------- program constants
MAX_RETRIES == 2

\* ------------------------------------------------------------ Python values
None == <<"None">>

Falsy(x) == x = None \/ x = <<>>

IsSpace(c) == c = " "

RECURSIVE LStrip(_)
LStrip(s) ==
  IF s = <<>> THEN <<>>
  ELSE IF IsSpace(Head(s)) THEN LStrip(Tail(s)) ELSE s

RECURSIVE RStrip(_)
RStrip(s) ==
  IF s = <<>> THEN <<>>
  ELSE IF IsSpace(s[Len(s)]) THEN RStrip(SubSeq(s, 1, Len(s) - 1)) ELSE s

\* str.strip()
Strip(s) == RStrip(LStrip(s))

UPPER == <<"A", "B", "C", "D", "E", "F", "G", "H", "I", "J", "K", "L", "M",
           "N", "O", "P", "Q", "R", "S", "T", "U", "V", "W", "X", "Y", "Z">>
LOWER == <<"a", "b", "c", "d", "e", "f", "g", "h", "i", "j", "k", "l", "m",
           "n", "o", "p", "q", "r", "s", "t", "u", "v", "w", "x", "y", "z">>

\* str.lower()
Lower(s) ==
  [i \in 1..Len(s) |->
     IF \E k \in 1..Len(UPPER) : UPPER[k] = s[i]
     THEN LOWER[CHOOSE k \in 1..Len(UPPER) : UPPER[k] = s[i]]
     ELSE s[i]]

\* str.replace(a, b) for one-character a and b
Replace(s, a, b) == [i \in 1..Len(s) |-> IF s[i] = a THEN b ELSE s[i]]

DIGITS == <<"0", "1", "2", "3", "4", "5", "6", "7", "8", "9">>

IsDigit(c) == \E d \in 1..Len(DIGITS) : DIGITS[d] = c

\* f"{n}" for an int n >= 0
RECURSIVE IntToStr(_)
IntToStr(n) ==
  IF n < 10 THEN <<DIGITS[n + 1]>>
  ELSE IntToStr(n \div 10) \o <<DIGITS[(n % 10) + 1]>>

\* int(s) for a string of digits
RECURSIVE StrToInt(_)
StrToInt(s) ==
  IF s = <<>> THEN 0
  ELSE StrToInt(SubSeq(s, 1, Len(s) - 1)) * 10
       + ((CHOOSE d \in 1..Len(DIGITS) : DIGITS[d] = s[Len(s)]) - 1)

\* an int handed over where a str is expected: the value itself, not text
PyInt(n) == <<"int">> \o IntToStr(n)
IsInt(x) == Len(x) >= 1 /\ x[1] = "int"

\* the value of an optional number that is not None
TheValue(r) == CHOOSE x \in r : TRUE

\* pydantic HttpUrl: an absolute http(s) URL with a host
IsHttpUrl(u) ==
  /\ u # None
  /\ Len(u) >= 2
  /\ u[1] \in {"https://", "http://"}

\* CourseSchema(...): title is a required str, url a required HttpUrl,
\* image_url and provider_img are None or an HttpUrl, duration is None or a
\* str (an int is not a str: json_schema_extra is the pydantic 2 spelling,
\* and pydantic 2 does not turn a number into text)
SchemaAccepts(c) ==
  /\ c.title # None
  /\ IsHttpUrl(c.url)
  /\ (c.image_url = None \/ IsHttpUrl(c.image_url))
  /\ (c.provider_img = None \/ IsHttpUrl(c.provider_img))
  /\ (c.duration = None \/ ~IsInt(c.duration))

\* An optional number is a set with at most one element: {} is None.
\* Ratings are counted in hundredths; round(x, 1) gives the nearest tenth
\* (the inputs used are never exactly halfway between two tenths).
Round1(r) == {((x + 5) \div 10) * 10 : x \in r}

Ok(cs) == [exc |-> "none", courses |-> cs]
Raise(e) == [exc |-> e, courses |-> <<>>]

\* ---------------------------------------------------------------- Coursera
COURSERA_BASE == <<"https://", "www.coursera.org">>

\* item.get('partners', [None]): an absent key reads as the default [None]
DefaultList == <<None>>

\* ...[0] of a non-empty list ([] raises IndexError before this is used)
First(l) == l[1]

CourseraFullUrl(item) ==
  IF Falsy(item.url) THEN None ELSE COURSERA_BASE \o item.url

\* lines 145-148: productDuration, lower-cased, "_" turned into " "
CourseraDuration(item) ==
  IF Falsy(item.productDuration) THEN item.productDuration
  ELSE Replace(Lower(item.productDuration), "_", " ")

CourseraCourse(item) ==
  [title |-> item.name,
   url |-> CourseraFullUrl(item),
   image_url |-> item.imageUrl,
   duration |-> CourseraDuration(item),
   provider |-> First(item.partners),
   provider_img |-> First(item.partnerLogos),
   avg_rating |-> Round1(item.avgProductRating),
   count_rating |-> item.numProductRatings]

\* the exception one loop iteration raises, "none" if it appends a record
CourseraItemExc(item) ==
  IF item.partners = <<>> \/ item.partnerLogos = <<>> THEN "IndexError"
  ELSE IF ~SchemaAccepts(CourseraCourse(item)) THEN "ValidationError"
  ELSE "none"

RECURSIVE CourseraLoop(_, _)
CourseraLoop(elements, results) ==
  IF elements = <<>> THEN Ok(results)
  ELSE LET item == Head(elements) IN
       IF ~item.isdict THEN CourseraLoop(Tail(elements), results)
       ELSE IF CourseraItemExc(item) # "none" THEN Raise(CourseraItemExc(item))
       ELSE CourseraLoop(Tail(elements), Append(results, CourseraCourse(item)))

\* data is [shape, items]: the navigation to data.SearchResult.search[0].elements
\*   "null_data"     data["data"] is null          -> AttributeError escapes
\*   "empty_search"  search is []                  -> IndexError, caught, []
\*   "not_a_list"    elements is not a list        -> []
\*   "elements"      elements is the list items
parse_coursera_response(data) ==
  IF data.shape = "null_data" THEN Raise("AttributeError")
  ELSE IF data.shape = "empty_search" THEN Ok(<<>>)
  ELSE IF data.shape = "not_a_list" THEN Ok(<<>>)
  ELSE CourseraLoop(data.items, <<>>)

\* ------------------------------------------------------------------- Udemy
\* loc is the loop's local state that outlives an iteration:
\* [bound, avg_rating, count_rating]; avg_rating and count_rating are only
\* assigned inside "if rating:".
UdemyLocals(item, loc) ==
  IF item.isdict /\ item.has_course /\ item.has_rating /\ item.average # {}
  THEN [bound |-> TRUE, avg_rating |-> Round1(item.average),
        count_rating |-> item.count]
  ELSE loc

IsYmdDate(d) == d \in {<<"2024-05-01">>, <<"2023-11-30">>}

\* lines 148-151: "if duration:" is false for None and for 0, which are
\* then handed to CourseSchema as they are
UdemyDuration(item) ==
  IF item.durationInSeconds = {} THEN None
  ELSE LET duration == TheValue(item.durationInSeconds)
           hours == duration \div 3600
           remainder == duration % 3600
       IN IF duration = 0 THEN PyInt(duration)
          ELSE IntToStr(hours) \o <<"h", " ">>
               \o IntToStr(remainder \div 60) \o <<"m">>

UdemyCourse(item, loc) ==
  [title |-> Strip(item.title),
   url |-> item.urlCourseLanding,
   image_url |-> item.px240x135,
   duration |-> UdemyDuration(item),
   provider |-> item.instructor,
   provider_img |-> None,
   avg_rating |-> loc.avg_rating,
   count_rating |-> loc.count_rating]

\* the exception one loop iteration raises ("none": a record is appended);
\* loc is the local state after the "if rating:" block of this iteration
UdemyItemExc(item, loc) ==
  IF ~item.has_course THEN "AttributeError"
  ELSE IF item.has_rating /\ item.average = {} THEN "TypeError"
  ELSE IF ~Falsy(item.updatedOn) /\ ~IsYmdDate(item.updatedOn) THEN "ValueError"
  ELSE IF item.title = None THEN "AttributeError"
  ELSE IF ~item.has_images THEN "AttributeError"
  ELSE IF ~loc.bound THEN "UnboundLocalError"
  ELSE IF ~SchemaAccepts(UdemyCourse(item, loc)) THEN "ValidationError"
  ELSE "none"

RECURSIVE UdemyLoop(_, _, _)
UdemyLoop(elements, loc, results) ==
  IF elements = <<>> THEN Ok(results)
  ELSE LET item == Head(elements)
           loc2 == UdemyLocals(item, loc) IN
       IF ~item.isdict THEN UdemyLoop(Tail(elements), loc, results)
       ELSE IF UdemyItemExc(item, loc2) # "none"
            THEN Raise(UdemyItemExc(item, loc2))
       ELSE UdemyLoop(Tail(elements), loc2,
                      Append(results, UdemyCourse(item, loc2)))

Unbound == [bound |-> FALSE, avg_rating |-> {}, count_rating |-> {}]

\* data is [shape, items]: data.data.courseSearch.results
\*   "null_data"   data["data"] is null       -> AttributeError escapes
\*   "not_a_list"  results is not a list      -> []
\*   "elements"    results is the list items
parse_udemy_response(data) ==
  IF data.shape = "null_data" THEN Raise("AttributeError")
  ELSE IF data.shape = "not_a_list" THEN Ok(<<>>)
  ELSE UdemyLoop(data.items, Unbound, <<>>)

\* --------------------------------------------------------------------- edX
\* loc is [bound, provider_img]: provider_img is only assigned when the
\* item has a non-empty owners array.
EdxLocals(item, loc) ==
  IF item.isdict /\ item.owners # <<>>
  THEN [bound |-> TRUE, provider_img |-> item.owners[1].logoImageUrl]
  ELSE loc

\* lines 194-196: f"{duration} weeks" unless weeks_to_complete is None or 0
EdxDuration(item) ==
  IF item.weeks_to_complete = {} THEN None
  ELSE LET duration == TheValue(item.weeks_to_complete)
       IN IF duration = 0 THEN PyInt(duration)
          ELSE IntToStr(duration) \o <<" ", "w", "e", "e", "k", "s">>

EdxCourse(item, loc) ==
  [title |-> Strip(item.title),
   url |-> item.marketing_url,
   image_url |-> item.card_image_url,
   duration |-> EdxDuration(item),
   provider |-> IF item.owners # <<>> THEN item.owners[1].name ELSE None,
   provider_img |-> loc.provider_img,
   avg_rating |-> {},
   count_rating |-> {}]

\* TRUE when the iteration raises inside its try block (the item is skipped)
EdxItemSkipped(item, loc) ==
  \/ ~item.isdict
  \/ item.title = None
  \/ ~loc.bound
  \/ item.level = <<>>
  \/ ~SchemaAccepts(EdxCourse(item, loc))

RECURSIVE EdxLoop(_, _, _)
EdxLoop(hits, loc, courses) ==
  IF hits = <<>> THEN courses
  ELSE LET item == Head(hits)
           loc2 == EdxLocals(item, loc) IN
       IF EdxItemSkipped(item, loc2) THEN EdxLoop(Tail(hits), loc2, courses)
       ELSE EdxLoop(Tail(hits), loc2, Append(courses, EdxCourse(item, loc2)))

EdxUnbound == [bound |-> FALSE, provider_img |-> None]

\* data is [shape, items]; every exception is caught inside the function
\*   "empty"       falsy body ({} or null)            -> []
\*   "no_results"  results missing or empty           -> []
\*   "bad_shape"   navigation raises (caught)         -> []
\*   "elements"    results[0].hits is the list items
parse_edx_response(data) ==
  IF data.shape # "elements" THEN <<>>
  ELSE EdxLoop(data.items, EdxUnbound, <<>>)

\* ----------------------------------------------------------------- YouTube
YOUTUBE_WATCH == <<"https://", "youtube.com", "/watch?v=">>

IsIsoDateTime(d) == d \in {<<"2021-03-04T10:00:00+00:00">>}

\* loc is [bound]: publish_date is only assigned when publishedAt is
\* truthy and parses
YoutubeLocals(item, loc) ==
  IF /\ item.isdict
     /\ ~Falsy(item.id) /\ ~Falsy(item.title)
     /\ IsIsoDateTime(item.publishedAt)
  THEN [bound |-> TRUE]
  ELSE loc

\* number of digits s starts with
RECURSIVE LeadingDigits(_)
LeadingDigits(s) ==
  IF s # <<>> /\ IsDigit(Head(s)) THEN 1 + LeadingDigits(Tail(s)) ELSE 0

\* the optional group (?:(\d+)X)? of the pattern, matched at the start of
\* s: [digits, rest], digits = <<>> when the group takes part in no match
DurationGroup(s, X) ==
  LET k == LeadingDigits(s) IN
  IF k >= 1 /\ Len(s) > k /\ s[k + 1] = X
  THEN [digits |-> SubSeq(s, 1, k), rest |-> SubSeq(s, k + 2, Len(s))]
  ELSE [digits |-> <<>>, rest |-> s]

StartsWithPT(s) == Len(s) >= 2 /\ s[1] = "P" /\ s[2] = "T"

\* the last branch forgotten: without hours the minutes are always printed
convert_youtube_duration_no_seconds(iso_duration) ==
  IF Falsy(iso_duration) \/ ~StartsWithPT(iso_duration) THEN None
  ELSE LET h == DurationGroup(SubSeq(iso_duration, 3, Len(iso_duration)), "H")
           m == DurationGroup(h.rest, "M")
           hours == StrToInt(h.digits)
           minutes == StrToInt(m.digits)
       IN IF hours > 0
          THEN IntToStr(hours) \o <<"h", " ">> \o IntToStr(minutes) \o <<"m">>
          ELSE IntToStr(minutes) \o <<"m">>

\* re.match anchors the pattern at the start only; a group that did not
\* match counts as 0
convert_youtube_duration(iso_duration) ==
  IF Falsy(iso_duration) \/ ~StartsWithPT(iso_duration) THEN None
  ELSE LET h == DurationGroup(SubSeq(iso_duration, 3, Len(iso_duration)), "H")
           m == DurationGroup(h.rest, "M")
           sec == DurationGroup(m.rest, "S")
           hours == StrToInt(h.digits)
           minutes == StrToInt(m.digits)
           seconds == StrToInt(sec.digits)
       IN IF hours > 0
          THEN IntToStr(hours) \o <<"h", " ">> \o IntToStr(minutes) \o <<"m">>
          ELSE IF minutes > 0 THEN IntToStr(minutes) \o <<"m">>
          ELSE IntToStr(seconds) \o <<"s">>

\* lines 185-187
YoutubeDuration(item) ==
  IF Falsy(item.duration) THEN item.duration
  ELSE convert_youtube_duration(item.duration)

YoutubeCourse(item) ==
  [title |-> Strip(item.title),
   url |-> YOUTUBE_WATCH \o item.id,
   image_url |-> item.thumbnail,
   duration |-> YoutubeDuration(item),
   provider |-> item.channelTitle,
   provider_img |-> None,
   avg_rating |-> {},
   count_rating |-> {}]

\* TRUE when the iteration ends without appending: the explicit continue,
\* or an exception caught by the item's try block
YoutubeItemSkipped(item, loc) ==
  \/ ~item.isdict
  \/ Falsy(item.id) \/ Falsy(item.title)
  \/ (~Falsy(item.publishedAt) /\ ~IsIsoDateTime(item.publishedAt))
  \/ ~loc.bound
  \/ ~SchemaAccepts(YoutubeCourse(item))

RECURSIVE YoutubeLoop(_, _, _)
YoutubeLoop(items, loc, videos) ==
  IF items = <<>> THEN videos
  ELSE LET item == Head(items)
           loc2 == YoutubeLocals(item, loc) IN
       IF YoutubeItemSkipped(item, loc2)
       THEN YoutubeLoop(Tail(items), loc2, videos)
       ELSE YoutubeLoop(Tail(items), loc2, Append(videos, YoutubeCourse(item)))

YoutubeUnbound == [bound |-> FALSE]

parse_youtube_response(data) == YoutubeLoop(data.items, YoutubeUnbound, <<>>)

\* ------------------------------------------------------------ upstream data
Platforms == {"coursera", "edx", "udemy", "youtube"}

IMG == <<"https://", "img.example", "/i.jpg">>
LOGO == <<"https://", "img.example", "/logo1.png">>
LOGO2 == <<"https://", "img.example", "/logo2.png">>

\* Coursera search hits
CGood(t, path) ==
  [isdict |-> TRUE, name |-> t, url |-> path, imageUrl |-> IMG,
   partners |-> << <<"U">> >>, partnerLogos |-> <<LOGO>>,
   avgProductRating |-> {467}, numProductRatings |-> {12},
   productDuration |-> <<"O", "N", "E", "_", "M">>]
CItemA == CGood(<<"a">>, <<"/learn/a">>)
CItemB == CGood(<<"b", " ">>, <<"/learn/b">>)
CourseraItems ==
  {CItemA, CItemB,
   [CItemA EXCEPT !.name = None],
   [CItemA EXCEPT !.name = <<>>],
   [CItemA EXCEPT !.name = <<" ">>],
   [CItemA EXCEPT !.url = None],
   [CItemA EXCEPT !.partners = <<>>, !.partnerLogos = <<>>],
   [CItemA EXCEPT !.partners = DefaultList, !.partnerLogos = DefaultList],
   [CItemA EXCEPT !.productDuration = None],
   [CItemA EXCEPT !.isdict = FALSE]}

\* Udemy search results (the "course" object of each result)
UGood(t, u) ==
  [isdict |-> TRUE, has_course |-> TRUE, title |-> t, urlCourseLanding |-> u,
   has_images |-> TRUE, px240x135 |-> IMG, instructor |-> <<"I">>,
   has_rating |-> TRUE, average |-> {466}, count |-> {10},
   updatedOn |-> <<"2024-05-01">>, durationInSeconds |-> {5400}]
UItemA == UGood(<<"a">>, <<"https://", "www.udemy.com", "/course/a/">>)
UItemB == [UGood(<<" ", "b">>, <<"https://", "www.udemy.com", "/course/b/">>)
             EXCEPT !.average = {431}, !.count = {3}]
UdemyItems ==
  {UItemA, UItemB,
   [UItemA EXCEPT !.title = None],
   [UItemA EXCEPT !.title = <<" ">>],
   [UItemA EXCEPT !.urlCourseLanding = None],
   [UItemA EXCEPT !.has_rating = FALSE, !.average = {}, !.count = {}],
   [UItemA EXCEPT !.has_images = FALSE, !.px240x135 = None],
   [UItemA EXCEPT !.updatedOn = <<"yesterday">>],
   [UItemA EXCEPT !.durationInSeconds = {}],
   [UItemA EXCEPT !.isdict = FALSE]}

\* edX hits
EGood(t, u, logo) ==
  [isdict |-> TRUE, title |-> t, marketing_url |-> u, card_image_url |-> IMG,
   owners |-> <<[name |-> <<"O">>, logoImageUrl |-> logo]>>,
   level |-> << <<"Introductory">> >>, weeks_to_complete |-> {6}]
EItemA == EGood(<<"a">>, <<"https://", "www.edx.org", "/learn/a">>, LOGO)
EItemB == EGood(<<" ", "b">>, <<"https://", "www.edx.org", "/learn/b">>, LOGO2)
EdxItems ==
  {EItemA, EItemB,
   [EItemA EXCEPT !.title = None],
   [EItemA EXCEPT !.title = <<" ">>],
   [EItemA EXCEPT !.marketing_url = None],
   [EItemA EXCEPT !.marketing_url = <<"/learn/a">>],
   [EItemA EXCEPT !.owners = <<>>],
   [EItemA EXCEPT !.level = <<>>],
   [EItemA EXCEPT !.weeks_to_complete = {}],
   [EItemA EXCEPT !.isdict = FALSE]}

\* YouTube videos.list items
YGood(id, t) ==
  [isdict |-> TRUE, id |-> id, title |-> t, thumbnail |-> IMG,
   channelTitle |-> <<"C">>,
   publishedAt |-> <<"2021-03-04T10:00:00+00:00">>,
   duration |-> <<"P", "T", "1", "H", "5", "M">>]
YItemA == YGood(<<"v1">>, <<"a">>)
YItemB == YGood(<<"v2">>, <<" ", "b">>)
YoutubeItems ==
  {YItemA, YItemB,
   [YItemA EXCEPT !.title = None],
   [YItemA EXCEPT !.title = <<>>],
   [YItemA EXCEPT !.title = <<" ">>],
   [YItemA EXCEPT !.id = None],
   [YItemA EXCEPT !.publishedAt = None],
   [YItemA EXCEPT !.publishedAt = <<"soon">>],
   [YItemA EXCEPT !.duration = None],
   [YItemA EXCEPT !.isdict = FALSE]}

ItemsOf(p) ==
  CASE p = "coursera" -> CourseraItems
    [] p = "edx" -> EdxItems
    [] p = "udemy" -> UdemyItems
    [] p = "youtube" -> YoutubeItems

\* all batches of at most n items
BatchesOf(p, n) == UNION {[1..k -> ItemsOf(p)] : k \in 0..n}

\* durationInSeconds values
SecondsSamples == {0, 1, 59, 60, 3599, 3600, 5400, 7259, 86399, 360000}

\* the numbers of an ISO 8601 duration token, <<>> for a left-out component
ComponentSamples == {<<>>, <<"0">>, <<"5">>, <<"4", "5">>, <<"1">>, <<"0", "7">>}

Component(n, X) == IF n = <<>> THEN <<>> ELSE n \o <<X>>

\* contentDetails.duration values: PT[#H][#M][#S], and tokens of other forms
DurationTokens ==
  {<<"P", "T">> \o Component(h, "H") \o Component(m, "M") \o Component(sec, "S") :
     h \in ComponentSamples, m \in ComponentSamples, sec \in ComponentSamples}
  \cup {<<>>, <<"P", "1", "D", "T", "2", "H">>, <<"1", "H", "5", "M">>,
        <<"T", "5", "M">>, <<"p", "t", "5", "M">>, <<"P">>}

\* one-item batches that go through the duration values
DurationBatches(p) ==
  CASE p = "udemy" ->
         {<<[UItemA EXCEPT !.durationInSeconds = {n}]>> : n \in SecondsSamples}
    [] p = "youtube" ->
         {<<[YItemA EXCEPT !.duration = t]>> : t \in DurationTokens}
    [] OTHER -> {}

\* ----------------------------------------------------------- request inputs
Queries == {<<>>, <<" ", " ">>, <<" ", "a", " ", "b", " ">>}
Langs == {"en", "es"}
NumItemsChoices == {0, 1}

\* urllib.parse.quote on the alphabet used: a space becomes %20
RECURSIVE quote(_)
quote(s) ==
  IF s = <<>> THEN <<>>
  ELSE (IF Head(s) = " " THEN <<"%", "2", "0">> ELSE <<Head(s)>>)
       \o quote(Tail(s))

lang_codes(p, l) ==
  CASE p = "coursera" -> IF l = "es" THEN "Spanish" ELSE "English"
    [] p = "edx" -> IF l = "es" THEN "Spanish" ELSE "English"
    [] p = "udemy" -> IF l = "es" THEN "ES" ELSE "EN"
    [] p = "youtube" -> IF l = "es" THEN "curso+completo+español"
                        ELSE "full+course"

redirect_url(p, query, l) ==
  CASE p = "coursera" ->
         <<"https://coursera.org/search?query=">> \o quote(query)
           \o <<"&language=", lang_codes(p, l)>>
    [] p = "edx" ->
         <<"https://www.edx.org/search?q=">> \o quote(query)
           \o <<"&language=", lang_codes(p, l), "&availability=Available+now">>
    [] p = "udemy" ->
         <<"https://www.udemy.com/courses/search/?lang=", lang_codes(p, l),
           "&price=price-free&q=">> \o quote(query)
    [] p = "youtube" ->
         <<"https://www.youtube.com/results?search_query=">> \o quote(query)
           \o <<"+", lang_codes(p, l)>>

\* -------------------------------------------------------- upstream outcomes
\* One upstream exchange is a record [kind, shape, items]:
\*   kind  "ok" (HTTP 200 with a JSON body) or the way the exchange failed
\*   shape of the JSON body, "elements" when it holds the list items
Out(k, sh, its) == [kind |-> k, shape |-> sh, items |-> its]
Fail(k) == Out(k, "none", <<>>)

\* batches the live upstream answers with in the request-level specification
SampleBatches(p) ==
  {<<>>} \cup
  (CASE p = "coursera" -> {<<CItemA>>, <<CItemA, CItemB>>,
                          <<CItemA, [CItemA EXCEPT !.name = None]>>}
     [] p = "edx" -> {<<EItemA>>, <<EItemA, EItemB>>,
                     <<[EItemA EXCEPT !.title = None], EItemB>>}
     [] p = "udemy" -> {<<UItemA>>, <<UItemA, UItemB>>,
                       <<UItemA, [UItemA EXCEPT !.title = None]>>}
     [] p = "youtube" -> {<<YItemA>>, <<YItemA, YItemB>>, <<YItemB, YItemA>>,
                         <<[YItemA EXCEPT !.title = None], YItemB>>})

OkBodies(p, shapes) ==
  {Out("ok", sh, <<>>) : sh \in shapes}
  \cup {Out("ok", "elements", b) : b \in SampleBatches(p)}

\* an error status whose body would parse if it were read
ErrorWithBody(p) ==
  Out("http_500", "elements", CHOOSE b \in SampleBatches(p) : Len(b) = 1)

CourseraOutcomes ==
  {Fail(k) : k \in {"connect_error", "timeout", "http_500", "bad_json",
                    "not_list_body"}}
  \cup {ErrorWithBody("coursera")}
  \cup OkBodies("coursera", {"null_data", "empty_search", "not_a_list"})

UdemyOutcomes ==
  {Fail(k) : k \in {"connect_error", "timeout", "http_500", "bad_json",
                    "not_dict_body"}}
  \cup {ErrorWithBody("udemy")}
  \cup OkBodies("udemy", {"null_data", "not_a_list"})

EdxOutcomes ==
  {Fail(k) : k \in {"connect_error", "timeout", "429", "http_500", "bad_json"}}
  \cup {ErrorWithBody("edx")}
  \cup OkBodies("edx", {"empty", "no_results", "bad_shape"})

\* search().list: items is the list of id.videoId values (None: no videoId)
YoutubeSearchOutcomes ==
  {Fail(k) : k \in {"connect_error", "http_error"}}
  \cup {Out("ok", "bad_shape", <<>>)}
  \cup {Out("ok", "elements", ids) :
          ids \in {<<>>, <<None>>, << <<"v1">> >>, << <<"v1">>, None, <<"v2">> >>}}

\* videos().list
YoutubeDetailsOutcomes ==
  {Fail(k) : k \in {"connect_error", "http_error"}}
  \cup {Out("ok", "elements", b) : b \in SampleBatches("youtube")}

\* the upstream exchange failed: no usable body came back
UpstreamFailed(o) == o.kind # "ok" \/ o.shape # "elements"

\* the body (shape and items) the adapter reads from a 200 answer
Body(o) == [shape |-> o.shape, items |-> o.items]

\* ---------------------------------------------------------------- adapters
\* fetch_coursera_courses without response.raise_for_status()
fetch_coursera_exc_unchecked(o) ==
  CASE o.kind \in {"ok", "http_500"} -> "none"
    [] o.kind = "connect_error" -> "RequestError"
    [] o.kind = "timeout" -> "RequestError"
    [] o.kind = "bad_json" -> "JSONDecodeError"
    [] o.kind = "not_list_body" -> "ValueError"

\* fetch_coursera_courses: the exception that escapes it, "none" on success
fetch_coursera_exc(o) ==
  CASE o.kind = "ok" -> "none"
    [] o.kind = "connect_error" -> "RequestError"
    [] o.kind = "timeout" -> "RequestError"
    [] o.kind = "http_500" -> "HTTPStatusError"
    [] o.kind = "bad_json" -> "JSONDecodeError"
    [] o.kind = "not_list_body" -> "ValueError"

get_coursera_courses(o) ==
  IF fetch_coursera_exc(o) # "none" THEN Raise(fetch_coursera_exc(o))
  ELSE parse_coursera_response(Body(o))

\* fetch_udemy_courses uses requests: its exceptions are none of the httpx
\* classes the except clauses name, so they escape unchanged
fetch_udemy_exc(o) ==
  CASE o.kind = "ok" -> "none"
    [] o.kind = "connect_error" -> "ConnectionError"
    [] o.kind = "timeout" -> "Timeout"
    [] o.kind = "http_500" -> "HTTPError"
    [] o.kind = "bad_json" -> "JSONDecodeError"
    [] o.kind = "not_dict_body" -> "ValueError"

get_udemy_courses(o) ==
  IF fetch_udemy_exc(o) # "none" THEN Raise(fetch_udemy_exc(o))
  ELSE parse_udemy_response(Body(o))

\* only the TimeoutException branch retries
EdxTransientTimeoutOnly(o) == o.kind = "timeout"

\* fetch_edx_courses, one attempt: "return" ends the call with the body or
\* None, "retry" sleeps and goes round the loop again
EdxTransient(o) == o.kind \in {"timeout", "429"}

\* "if attempt <= MAX_RETRIES": one retry too many
EdxAttemptEndsOffByOne(o, att) ==
  IF EdxTransient(o) /\ att <= MAX_RETRIES THEN "retry" ELSE "return"

EdxAttemptEnds(o, att) ==
  IF EdxTransient(o) /\ att < MAX_RETRIES THEN "retry" ELSE "return"

\* get_edx_courses without its try/except, fetch_edx_courses letting
\* transport errors through
get_edx_courses_unguarded(o) ==
  IF o.kind \in {"connect_error", "timeout"} THEN Raise("RequestError")
  ELSE IF o.kind # "ok" \/ o.shape = "empty" THEN Ok(<<>>)
  ELSE Ok(parse_edx_response(Body(o)))

\* get_edx_courses once fetch_edx_courses returned on outcome o
get_edx_courses(o) ==
  IF o.kind # "ok" \/ o.shape = "empty" THEN Ok(<<>>)
  ELSE Ok(parse_edx_response(Body(o)))

\* get_youtube_courses: the loop extracting video_ids from the search body
RECURSIVE ExtractIds(_)
ExtractIds(items) ==
  IF items = <<>> THEN <<>>
  ELSE (IF Falsy(Head(items)) THEN <<>> ELSE <<Head(items)>>)
       \o ExtractIds(Tail(items))

\* the loop leaves after the first identifier
youtube_video_ids_first(o) ==
  IF o.kind # "ok" \/ o.shape # "elements" THEN <<>>
  ELSE SubSeq(ExtractIds(o.items), 1, 1)

youtube_video_ids(o) ==
  IF o.kind # "ok" \/ o.shape # "elements" THEN <<>> ELSE ExtractIds(o.items)

\* ",".join(video_ids)
RECURSIVE JoinIds(_)
JoinIds(ids) ==
  IF ids = <<>> THEN <<>>
  ELSE IF Len(ids) = 1 THEN Head(ids)
  ELSE Head(ids) \o <<",">> \o JoinIds(Tail(ids))

\* the two requests the adapter sends: search().list and videos().list
SearchRequest == [method |-> "search", id |-> <<>>]
VideosRequest(ids) == [method |-> "videos", id |-> JoinIds(ids)]

youtube_detailed_courses(o) ==
  IF o.kind # "ok" THEN Ok(<<>>)
  ELSE Ok(parse_youtube_response(Body(o)))

\* ------------------------------------------------------------------- state
VARIABLES
  q,          \* the q parameter of the request
  lang,       \* the lang parameter ("en" or "es")
  num_items,  \* the num_items parameter
  pc,         \* where search_courses stands
  st,         \* per platform: the state of the adapter call
  courses,    \* per platform: the handler's <platform>_courses local
  exc,        \* per platform: the exception the adapter raised to the handler
  failed,     \* per platform: the last upstream exchange failed (history)
  attempt,    \* fetch_edx_courses' loop variable
  edx_log,    \* the outcomes of the edX attempts, in order (history)
  video_ids,  \* get_youtube_courses' video_ids
  yt_requests, \* the requests sent to the YouTube API, in order (history)
  calls,      \* per platform: upstream requests issued (history)
  response,   \* what search_courses answered: [status, results]
  api_key,    \* youtube.API_KEY is set
  yt_client,  \* get_youtube_client's cached client exists
  stub,       \* per platform: the scripted upstream, <<>> for a live one
  prev,       \* the previous request's response
  run,        \* number of the request being handled
  varied,     \* the platform whose script was changed between two requests
  pPlatform,  \* the adapter whose parse step is exercised
  pBatch,     \* the upstream batch handed to it
  pResult,    \* what the parse step produced
  pPhase      \* "ready" or "parsed"

reqVars == <<q, lang, num_items>>
runVars == <<pc, st, courses, exc, failed, attempt, edx_log, video_ids,
             yt_requests, calls, response>>
envVars == <<api_key, yt_client, stub, prev, run, varied>>
parseVars == <<pPlatform, pBatch, pResult, pPhase>>
vars == <<reqVars, runVars, envVars, parseVars>>

NoResponse == [status |-> 0, results |-> <<>>]
NoResult == [exc |-> "none", courses |-> <<>>]

\* the state of search_courses when a request enters it
FreshRun ==
  /\ pc = "validate"
  /\ st = [p \in Platforms |-> "idle"]
  /\ courses = [p \in Platforms |-> <<>>]
  /\ exc = [p \in Platforms |-> "none"]
  /\ failed = [p \in Platforms |-> FALSE]
  /\ attempt = 0
  /\ edx_log = <<>>
  /\ video_ids = <<>>
  /\ yt_requests = <<>>
  /\ calls = [p \in Platforms |-> 0]
  /\ response = NoResponse

LiveUpstream == [p \in Platforms |-> <<>>]

ParseIdle ==
  /\ pPlatform = "none"
  /\ pBatch = <<>>
  /\ pResult = NoResult
  /\ pPhase = "ready"

Init ==
  /\ q \in Queries
  /\ lang \in Langs
  /\ num_items \in NumItemsChoices
  /\ FreshRun
  /\ api_key \in BOOLEAN
  /\ yt_client = FALSE
  /\ stub = LiveUpstream
  /\ prev = NoResponse
  /\ run = 1
  /\ varied = "none"
  /\ ParseIdle

\* ---------------------------------------------------------- search_courses
NextPlatform(p) ==
  CASE p = "coursera" -> "edx"
    [] p = "edx" -> "udemy"
    [] p = "udemy" -> "youtube"
    [] p = "youtube" -> "respond"

\* an except clause that names only the httpx errors
HandlerCatchesHttpxOnly(e) == e \in {"HTTPStatusError", "RequestError"}

\* "except Exception" around each adapter call
HandlerCatches(e) == TRUE

\* one try block around the four awaits: the first exception skips the
\* adapters that follow
AdapterEndsOneTry(p, r) ==
  /\ exc' = [exc EXCEPT ![p] = r.exc]
  /\ response' = response
  /\ IF r.exc = "none"
     THEN /\ st' = [st EXCEPT ![p] = "returned"]
          /\ courses' = [courses EXCEPT ![p] = r.courses]
          /\ pc' = NextPlatform(p)
     ELSE /\ st' = [st EXCEPT ![p] = "raised"]
          /\ courses' = [courses EXCEPT ![p] = <<>>]
          /\ pc' = "respond"

\* the await of adapter p ends with result r = [exc, courses]
AdapterEnds(p, r) ==
  /\ exc' = [exc EXCEPT ![p] = r.exc]
  /\ IF r.exc = "none"
     THEN /\ st' = [st EXCEPT ![p] = "returned"]
          /\ courses' = [courses EXCEPT ![p] = r.courses]
          /\ pc' = NextPlatform(p)
          /\ response' = response
     ELSE /\ st' = [st EXCEPT ![p] = "raised"]
          /\ IF HandlerCatches(r.exc)
             THEN /\ courses' = [courses EXCEPT ![p] = <<>>]
                  /\ pc' = NextPlatform(p)
                  /\ response' = response
             ELSE /\ courses' = courses
                  /\ pc' = "done"
                  /\ response' = [status |-> 500, results |-> <<>>]

IsBlank(s) == Strip(s) = <<>>

\* "if not q" : the strip is forgotten
QueryRejectedUnstripped(s) == s = <<>>

\* "if not q.strip()"
QueryRejected(s) == IsBlank(s)

\* lines 37-42: validation, then query = q.strip()
Validate ==
  /\ pc = "validate"
  /\ IF QueryRejected(q)
     THEN /\ pc' = "done"
          /\ response' = [status |-> 400, results |-> <<>>]
     ELSE /\ pc' = "coursera"
          /\ response' = response
  /\ UNCHANGED <<st, courses, exc, failed, attempt, edx_log, video_ids, yt_requests, calls>>
  /\ UNCHANGED <<reqVars, envVars, parseVars>>

query == Strip(q)

\* the handler's position allows adapter p to be called now
Dispatched(p) == pc = p /\ st[p] = "idle"

\* the upstream answers call number calls[p] of platform p with o
Answers(p, o) == stub[p] = <<>> \/ (calls[p] <= Len(stub[p]) /\ o = stub[p][calls[p]])

Issue(p) == calls' = [calls EXCEPT ![p] = @ + 1]

\* get_coursera_courses up to the await of client.post
CourseraCall ==
  /\ Dispatched("coursera")
  /\ IF IsBlank(query) \/ num_items <= 0
     THEN /\ AdapterEnds("coursera", Raise("ValueError"))
          /\ calls' = calls
     ELSE /\ st' = [st EXCEPT !["coursera"] = "inflight"]
          /\ Issue("coursera")
          /\ UNCHANGED <<pc, courses, exc, response>>
  /\ UNCHANGED <<failed, attempt, edx_log, video_ids, yt_requests>>
  /\ UNCHANGED <<reqVars, envVars, parseVars>>

CourseraResponse(o) ==
  /\ pc = "coursera" /\ st["coursera"] = "inflight"
  /\ Answers("coursera", o)
  /\ failed' = [failed EXCEPT !["coursera"] = UpstreamFailed(o)]
  /\ AdapterEnds("coursera", get_coursera_courses(o))
  /\ UNCHANGED <<attempt, edx_log, video_ids, yt_requests, calls>>
  /\ UNCHANGED <<reqVars, envVars, parseVars>>

\* get_edx_courses up to the first await of client.post
EdxCall ==
  /\ Dispatched("edx")
  /\ attempt' = 0
  /\ IF IsBlank(query)
     THEN /\ AdapterEnds("edx", Ok(<<>>))
          /\ calls' = calls
     ELSE /\ st' = [st EXCEPT !["edx"] = "inflight"]
          /\ Issue("edx")
          /\ UNCHANGED <<pc, courses, exc, response>>
  /\ UNCHANGED <<failed, edx_log, video_ids, yt_requests>>
  /\ UNCHANGED <<reqVars, envVars, parseVars>>

\* one attempt of fetch_edx_courses ends with outcome o
EdxResponse(o) ==
  /\ pc = "edx" /\ st["edx"] = "inflight"
  /\ Answers("edx", o)
  /\ edx_log' = Append(edx_log, o)
  /\ failed' = [failed EXCEPT !["edx"] = UpstreamFailed(o)]
  /\ IF EdxAttemptEnds(o, attempt) = "retry"
     THEN /\ st' = [st EXCEPT !["edx"] = "backoff"]
          /\ UNCHANGED <<pc, courses, exc, response>>
     ELSE AdapterEnds("edx", get_edx_courses(o))
  /\ UNCHANGED <<attempt, video_ids, yt_requests, calls>>
  /\ UNCHANGED <<reqVars, envVars, parseVars>>

\* asyncio.sleep is over: the loop's next attempt posts again
EdxRetry ==
  /\ pc = "edx" /\ st["edx"] = "backoff"
  /\ attempt' = attempt + 1
  /\ st' = [st EXCEPT !["edx"] = "inflight"]
  /\ Issue("edx")
  /\ UNCHANGED <<pc, courses, exc, failed, edx_log, video_ids, yt_requests, response>>
  /\ UNCHANGED <<reqVars, envVars, parseVars>>

\* get_udemy_courses up to requests.post
UdemyCall ==
  /\ Dispatched("udemy")
  /\ IF IsBlank(query) \/ num_items <= 0
     THEN /\ AdapterEnds("udemy", Raise("ValueError"))
          /\ calls' = calls
     ELSE /\ st' = [st EXCEPT !["udemy"] = "inflight"]
          /\ Issue("udemy")
          /\ UNCHANGED <<pc, courses, exc, response>>
  /\ UNCHANGED <<failed, attempt, edx_log, video_ids, yt_requests>>
  /\ UNCHANGED <<reqVars, envVars, parseVars>>

UdemyResponse(o) ==
  /\ pc = "udemy" /\ st["udemy"] = "inflight"
  /\ Answers("udemy", o)
  /\ failed' = [failed EXCEPT !["udemy"] = UpstreamFailed(o)]
  /\ AdapterEnds("udemy", get_udemy_courses(o))
  /\ UNCHANGED <<attempt, edx_log, video_ids, yt_requests, calls>>
  /\ UNCHANGED <<reqVars, envVars, parseVars>>

\* a cached client that cannot be used twice: the second request's search
\* raises inside fetch_youtube_courses and the adapter returns []
YoutubeCallStaleClient ==
  /\ Dispatched("youtube")
  /\ IF IsBlank(query) \/ ~api_key \/ yt_client
     THEN /\ AdapterEnds("youtube", Ok(<<>>))
          /\ UNCHANGED <<calls, yt_client, yt_requests>>
     ELSE /\ yt_client' = TRUE
          /\ st' = [st EXCEPT !["youtube"] = "search"]
          /\ Issue("youtube")
          /\ yt_requests' = Append(yt_requests, SearchRequest)
          /\ UNCHANGED <<pc, courses, exc, response>>
  /\ UNCHANGED <<failed, attempt, edx_log, video_ids>>
  /\ UNCHANGED <<reqVars, api_key, stub, prev, run, varied, parseVars>>

\* get_youtube_courses up to the search call handed to the executor;
\* without an API key get_youtube_client raises, fetch_youtube_courses
\* answers {"items": []} and the adapter returns []; the client
\* get_youtube_client built is cached for the requests that follow
YoutubeCall ==
  /\ Dispatched("youtube")
  /\ IF IsBlank(query) \/ ~api_key
     THEN /\ AdapterEnds("youtube", Ok(<<>>))
          /\ UNCHANGED <<calls, yt_client, yt_requests>>
     ELSE /\ yt_client' = TRUE
          /\ st' = [st EXCEPT !["youtube"] = "search"]
          /\ Issue("youtube")
          /\ yt_requests' = Append(yt_requests, SearchRequest)
          /\ UNCHANGED <<pc, courses, exc, response>>
  /\ UNCHANGED <<failed, attempt, edx_log, video_ids>>
  /\ UNCHANGED <<reqVars, api_key, stub, prev, run, varied, parseVars>>

\* the search call ends with o; with identifiers the details call is issued
YoutubeSearchResponse(o) ==
  /\ pc = "youtube" /\ st["youtube"] = "search"
  /\ Answers("youtube", o)
  /\ failed' = [failed EXCEPT !["youtube"] = UpstreamFailed(o)]
  /\ video_ids' = youtube_video_ids(o)
  /\ IF youtube_video_ids(o) = <<>>
     THEN /\ AdapterEnds("youtube", Ok(<<>>))
          /\ UNCHANGED <<calls, yt_requests>>
     ELSE /\ st' = [st EXCEPT !["youtube"] = "details"]
          /\ Issue("youtube")
          /\ yt_requests' = Append(yt_requests, VideosRequest(video_ids'))
          /\ UNCHANGED <<pc, courses, exc, response>>
  /\ UNCHANGED <<attempt, edx_log>>
  /\ UNCHANGED <<reqVars, envVars, parseVars>>

YoutubeDetailsResponse(o) ==
  /\ pc = "youtube" /\ st["youtube"] = "details"
  /\ Answers("youtube", o)
  /\ failed' = [failed EXCEPT !["youtube"] = UpstreamFailed(o)]
  /\ AdapterEnds("youtube", youtube_detailed_courses(o))
  /\ UNCHANGED <<attempt, edx_log, video_ids, yt_requests, calls>>
  /\ UNCHANGED <<reqVars, envVars, parseVars>>

\* lines 77-105: redirect URLs and the combined mapping
Results ==
  [p \in Platforms |->
     [courses |-> courses[p], redirect_url |-> redirect_url(p, query, lang)]]

Respond ==
  /\ pc = "respond"
  /\ response' = [status |-> 200, results |-> Results]
  /\ pc' = "done"
  /\ UNCHANGED <<st, courses, exc, failed, attempt, edx_log, video_ids, yt_requests, calls>>
  /\ UNCHANGED <<reqVars, envVars, parseVars>>

Next ==
  \/ Validate
  \/ CourseraCall
  \/ \E o \in CourseraOutcomes : CourseraResponse(o)
  \/ EdxCall
  \/ \E o \in EdxOutcomes : EdxResponse(o)
  \/ EdxRetry
  \/ UdemyCall
  \/ \E o \in UdemyOutcomes : UdemyResponse(o)
  \/ YoutubeCall
  \/ \E o \in YoutubeSearchOutcomes : YoutubeSearchResponse(o)
  \/ \E o \in YoutubeDetailsOutcomes : YoutubeDetailsResponse(o)
  \/ Respond

Spec == Init /\ [][Next]_vars

\* ------------------------------------------- the parse step on its own
InitParse ==
  /\ q = <<>> /\ lang = "en" /\ num_items = 2
  /\ FreshRun
  /\ api_key = TRUE /\ yt_client = FALSE
  /\ stub = LiveUpstream /\ prev = NoResponse /\ run = 1 /\ varied = "none"
  /\ pPlatform \in Platforms
  /\ pBatch \in BatchesOf(pPlatform, MaxBatch) \cup DurationBatches(pPlatform)
  /\ pResult = NoResult
  /\ pPhase = "ready"

Parse(p, result) ==
  /\ pPhase = "ready" /\ pPlatform = p
  /\ pResult' = result
  /\ pPhase' = "parsed"
  /\ UNCHANGED <<pPlatform, pBatch, reqVars, runVars, envVars>>

Elements(batch) == [shape |-> "elements", items |-> batch]

ParseCoursera == Parse("coursera", parse_coursera_response(Elements(pBatch)))
ParseUdemy == Parse("udemy", parse_udemy_response(Elements(pBatch)))
ParseEdx == Parse("edx", Ok(parse_edx_response(Elements(pBatch))))
ParseYoutube == Parse("youtube", Ok(parse_youtube_response(Elements(pBatch))))

NextParse == ParseCoursera \/ ParseUdemy \/ ParseEdx \/ ParseYoutube

SpecParse == InitParse /\ [][NextParse]_vars

\* ------------------------------------- two requests against a scripted stub
\* stub[p][k] is the answer to the k-th upstream request of platform p
StubScripts(p) ==
  CASE p = "coursera" ->
         {<<Fail("connect_error")>>,
          <<Out("ok", "empty_search", <<>>)>>,
          <<Out("ok", "elements", <<CItemA, CItemB>>)>>,
          <<Out("ok", "elements", <<CItemA, [CItemA EXCEPT !.name = None]>>)>>}
    [] p = "edx" ->
         {<<Fail("http_500")>>,
          <<Out("ok", "elements", <<EItemA>>)>>,
          <<Fail("429"), Out("ok", "elements", <<EItemA, EItemB>>)>>,
          <<Fail("timeout"), Fail("429"), Fail("timeout")>>,
          <<Fail("429"), Fail("timeout"),
            Out("ok", "elements", <<[EItemA EXCEPT !.title = None], EItemB>>)>>}
    [] p = "udemy" ->
         {<<Fail("timeout")>>,
          <<Out("ok", "null_data", <<>>)>>,
          <<Out("ok", "elements", <<UItemA, UItemB>>)>>,
          <<Out("ok", "elements", <<UItemA, [UItemA EXCEPT !.title = None]>>)>>}
    [] p = "youtube" ->
         {<<Fail("http_error")>>,
          <<Out("ok", "elements", << <<"v1">>, None, <<"v2">> >>),
            Fail("http_error")>>,
          <<Out("ok", "elements", << <<"v1">>, None, <<"v2">> >>),
            Out("ok", "elements", <<YItemA, YItemB>>)>>,
          <<Out("ok", "elements", << <<"v1">> >>),
            Out("ok", "elements", <<[YItemA EXCEPT !.title = None], YItemB>>)>>,
          <<Out("ok", "elements", << <<"v1">>, None, <<"v2">> >>),
            Out("ok", "elements", <<YItemB, YItemA>>)>>,
          <<Out("ok", "elements", <<None>>)>>}

InitStub ==
  /\ q \in Queries
  /\ lang \in Langs
  /\ num_items \in NumItemsChoices
  /\ FreshRun
  /\ api_key \in BOOLEAN
  /\ yt_client = FALSE
  /\ stub \in [coursera : StubScripts("coursera"), edx : StubScripts("edx"),
               udemy : StubScripts("udemy"), youtube : StubScripts("youtube")]
  /\ prev = NoResponse
  /\ run = 1
  /\ varied = "none"
  /\ ParseIdle

\* the first request is answered; the same request is sent again after the
\* upstream of one platform changed its behaviour
NewRequest ==
  /\ pc = "done" /\ run = 1
  /\ run' = 2
  /\ prev' = response
  /\ \E v \in Platforms : \E s \in StubScripts(v) :
       /\ varied' = v
       /\ stub' = [stub EXCEPT ![v] = s]
  /\ pc' = "validate"
  /\ st' = [p \in Platforms |-> "idle"]
  /\ courses' = [p \in Platforms |-> <<>>]
  /\ exc' = [p \in Platforms |-> "none"]
  /\ failed' = [p \in Platforms |-> FALSE]
  /\ attempt' = 0
  /\ edx_log' = <<>>
  /\ video_ids' = <<>>
  /\ yt_requests' = <<>>
  /\ calls' = [p \in Platforms |-> 0]
  /\ response' = NoResponse
  /\ UNCHANGED <<reqVars, api_key, yt_client, parseVars>>

NextStub == Next \/ NewRequest

SpecStub == InitStub /\ [][NextStub]_vars

\* ------------------------------ a run of requests in one server process
\* search_courses is called again and again: every call starts with fresh
\* locals, only the cached YouTube client outlives a call
RepeatQueries == {<<" ", " ">>, <<" ", "a", " ", "b", " ">>}

RepeatStubs ==
  {[coursera |-> <<Out("ok", "elements", <<CItemA, CItemB>>)>>,
    edx |-> <<Fail("429"), Out("ok", "elements", <<EItemA, EItemB>>)>>,
    udemy |-> <<Out("ok", "elements", <<UItemA, UItemB>>)>>,
    youtube |-> <<Out("ok", "elements", << <<"v1">>, None, <<"v2">> >>),
                  Out("ok", "elements", <<YItemA, YItemB>>)>>],
   [coursera |-> <<Fail("connect_error")>>,
    edx |-> <<Out("ok", "elements", <<EItemA>>)>>,
    udemy |-> <<Out("ok", "null_data", <<>>)>>,
    youtube |-> <<Fail("http_error")>>],
   [coursera |-> <<Out("ok", "elements",
                       <<CItemA, [CItemA EXCEPT !.name = None]>>)>>,
    edx |-> <<Fail("timeout"), Fail("429"), Fail("timeout")>>,
    udemy |-> <<Fail("timeout")>>,
    youtube |-> <<Out("ok", "elements", << <<"v1">> >>),
                  Fail("http_error")>>]}

InitRepeat ==
  /\ q \in RepeatQueries
  /\ lang \in Langs
  /\ num_items \in NumItemsChoices
  /\ FreshRun
  /\ api_key \in BOOLEAN
  /\ yt_client = FALSE
  /\ stub \in RepeatStubs
  /\ prev = NoResponse
  /\ run = 1
  /\ varied = "none"
  /\ ParseIdle

\* the request just answered, as a later request will remember it
Answered ==
  [status |-> response.status, results |-> response.results,
   q |-> q, lang |-> lang, num_items |-> num_items, run |-> run]

\* the next request arrives, with any parameters; prev keeps one of the
\* requests answered so far
AnotherRequest ==
  /\ pc = "done" /\ run < MaxRequests
  /\ run' = run + 1
  /\ prev' \in (IF prev.status = 0 THEN {prev, Answered} ELSE {prev})
  /\ q' \in RepeatQueries
  /\ lang' \in Langs
  /\ num_items' \in NumItemsChoices
  /\ pc' = "validate"
  /\ st' = [p \in Platforms |-> "idle"]
  /\ courses' = [p \in Platforms |-> <<>>]
  /\ exc' = [p \in Platforms |-> "none"]
  /\ failed' = [p \in Platforms |-> FALSE]
  /\ attempt' = 0
  /\ edx_log' = <<>>
  /\ video_ids' = <<>>
  /\ yt_requests' = <<>>
  /\ calls' = [p \in Platforms |-> 0]
  /\ response' = NoResponse
  /\ UNCHANGED <<api_key, yt_client, stub, varied, parseVars>>

NextRepeat == Next \/ AnotherRequest

SpecRepeat == InitRepeat /\ [][NextRepeat]_vars

\* ------------------------------------------------------------------ claims
Done == pc = "done"
Ended(p) == st[p] \in {"returned", "raised"}
IsSequence(x) == DOMAIN x = 1..Len(x)

\* C1: for a query that is not blank, whatever the four adapters do
\* (courses, nothing, an exception), search_courses answers a mapping whose
\* keys are exactly coursera, edx, udemy and youtube, each entry holding a
\* courses sequence and a non-empty redirect_url.
CompleteMapping ==
  (Done /\ ~IsBlank(q)) =>
    /\ response.status = 200
    /\ DOMAIN response.results = Platforms
    /\ \A p \in Platforms :
         /\ DOMAIN response.results[p] = {"courses", "redirect_url"}
         /\ IsSequence(response.results[p].courses)
         /\ response.results[p].redirect_url # <<>>

CompleteMappingWitness ==
  /\ Done /\ response.status = 200
  /\ exc["coursera"] = "ValueError"
  /\ exc["udemy"] # "none"
  /\ response.results["edx"].courses # <<>>
  /\ response.results["youtube"].courses = <<>>

\* C2: when a platform's upstream call fails (network error, HTTP 500, a
\* body that is not the expected JSON), search_courses still completes
\* without raising and that platform's courses sequence is empty.
FailedPlatformIsEmpty ==
  \A p \in Platforms :
    (Done /\ ~IsBlank(q) /\ failed[p]) =>
      /\ response.status = 200
      /\ response.results[p].courses = <<>>

FailedPlatformWitness ==
  /\ Done /\ response.status = 200
  /\ \A p \in Platforms : failed[p]
  /\ edx_log # <<>> /\ edx_log[Len(edx_log)].kind = "http_500"
  /\ exc["coursera"] = "HTTPStatusError"
  /\ calls["youtube"] = 2

Pending(p) == st[p] \in {"inflight", "backoff", "search", "details"}

\* C3: the four adapter calls of one request are in flight together: while
\* one adapter waits for its upstream (pending request, backoff sleep), an
\* adapter that has not been called yet can be called at once; it does not
\* wait for the other to reach a terminal outcome.
AdaptersStartWithoutWaiting ==
  (\E p \in Platforms : Pending(p)) =>
    /\ (st["coursera"] = "idle" => ENABLED CourseraCall)
    /\ (st["edx"] = "idle" => ENABLED EdxCall)
    /\ (st["udemy"] = "idle" => ENABLED UdemyCall)
    /\ (st["youtube"] = "idle" => ENABLED YoutubeCall)

\* C5: a blank query ends in the input error 400, and no adapter is called
\* and no upstream request is issued, at any time of the request.
BlankQueryRejected ==
  IsBlank(q) =>
    /\ \A p \in Platforms : st[p] = "idle" /\ calls[p] = 0
    /\ pc \in {"validate", "done"}
    /\ Done => response.status = 400

BlankQueryWitness ==
  /\ Done /\ q = <<" ", " ">> /\ response.status = 400

LastAttempt == edx_log[Len(edx_log)]

\* C9: fetch_edx_courses makes a further attempt exactly when the previous
\* attempt ended in a timeout or HTTP 429 and fewer than 3 attempts were
\* made: at most 3 attempts, no retry after any other failure, and three
\* transient failures in a row end in an empty result.
EdxRetryPolicy ==
  /\ calls["edx"] <= MAX_RETRIES + 1
  /\ Len(edx_log) <= calls["edx"]
  /\ \A i \in 1..(Len(edx_log) - 1) : EdxTransient(edx_log[i])
  /\ (st["edx"] = "backoff") =>
       (EdxTransient(LastAttempt) /\ Len(edx_log) < 3 /\ ENABLED EdxRetry)
  /\ (Ended("edx") /\ edx_log # <<>>) =>
       (~EdxTransient(LastAttempt) \/ Len(edx_log) = 3)
  /\ (Ended("edx") /\ Len(edx_log) = 3 /\ EdxTransient(LastAttempt)) =>
       courses["edx"] = <<>>

EdxRetryPolicyWitness ==
  /\ Ended("edx")
  /\ Len(edx_log) = 3
  /\ edx_log[1].kind = "timeout" /\ edx_log[2].kind = "429"
  /\ edx_log[3].kind = "timeout"
  /\ courses["edx"] = <<>>

\* C4: two runs of the same request that differ only in what one platform's
\* upstream did give the other three platforms the same courses and the
\* same redirect_url.
FailureIsolation ==
  (run = 2 /\ Done /\ ~IsBlank(q)) =>
    /\ prev.status = 200 /\ response.status = 200
    /\ \A r \in Platforms \ {varied} : response.results[r] = prev.results[r]

FailureIsolationWitness ==
  /\ run = 2 /\ Done /\ response.status = 200
  /\ varied = "coursera"
  /\ exc["coursera"] = "RequestError"
  /\ prev.results["coursera"].courses # <<>>
  /\ \A r \in Platforms \ {varied} : response.results[r].courses # <<>>

\* C7: a batch of n well-formed items plus one item without a title, at any
\* position, parses to exactly the n records of the well-formed items and
\* the parser raises nothing.
WellFormed(p) ==
  CASE p = "coursera" -> {CItemA, CItemB}
    [] p = "edx" -> {EItemA, EItemB}
    [] p = "udemy" -> {UItemA, UItemB}
    [] p = "youtube" -> {YItemA, YItemB}

Untitled(p) ==
  CASE p = "coursera" -> [CItemA EXCEPT !.name = None]
    [] p = "edx" -> [EItemA EXCEPT !.title = None]
    [] p = "udemy" -> [UItemA EXCEPT !.title = None]
    [] p = "youtube" -> [YItemA EXCEPT !.title = None]

OneUntitled(p, batch) ==
  \E i \in 1..Len(batch) :
    /\ batch[i] = Untitled(p)
    /\ \A j \in 1..Len(batch) : j # i => batch[j] \in WellFormed(p)

UntitledItemSkipped ==
  (pPhase = "parsed" /\ Len(pBatch) >= 2 /\ OneUntitled(pPlatform, pBatch)) =>
    /\ pResult.exc = "none"
    /\ Len(pResult.courses) = Len(pBatch) - 1

\* C8: when the first edX answer is HTTP 429 and the second is HTTP 200 with
\* valid data, get_edx_courses returns the courses parsed from the second
\* answer after exactly 2 upstream attempts.
EdxRetrySucceeds ==
  (/\ Len(stub["edx"]) >= 2
   /\ stub["edx"][1].kind = "429"
   /\ stub["edx"][2] = Out("ok", "elements", <<EItemA, EItemB>>)
   /\ Ended("edx")) =>
    /\ calls["edx"] = 2
    /\ Len(edx_log) = 2
    /\ exc["edx"] = "none"
    /\ Len(courses["edx"]) = 2
    /\ courses["edx"][1].title = <<"a">> /\ courses["edx"][1].url = EItemA.marketing_url
    /\ courses["edx"][2].title = <<"b">> /\ courses["edx"][2].url = EItemB.marketing_url

EdxRetrySucceedsWitness ==
  /\ Done /\ response.status = 200
  /\ stub["edx"][1].kind = "429"
  /\ calls["edx"] = 2
  /\ Len(response.results["edx"].courses) = 2

\* C10: every record an adapter's parse step returns has a title that is
\* non-empty after trimming and a non-empty url.
TitleAndUrlNonEmpty ==
  pPhase = "parsed" =>
    \A i \in 1..Len(pResult.courses) :
      /\ pResult.courses[i].title # None
      /\ Strip(pResult.courses[i].title) # <<>>
      /\ pResult.courses[i].url # None
      /\ pResult.courses[i].url # <<>>

\* C11: for every adapter and every upstream response, the sequence the
\* adapter returns holds at most num_items records, also when the upstream
\* sends more items than were asked for.
AtMostNumItems ==
  \A p \in Platforms : Ended(p) => Len(courses[p]) <= num_items

RECURSIVE IsSubseq(_, _)
IsSubseq(a, b) ==
  IF a = <<>> THEN TRUE
  ELSE IF b = <<>> THEN FALSE
  ELSE IF Head(a) = Head(b) THEN IsSubseq(Tail(a), Tail(b))
  ELSE IsSubseq(a, Tail(b))

UrlsOf(cs) == [i \in 1..Len(cs) |-> cs[i].url]

\* the url the upstream item stands for
ItemUrl(p, item) ==
  CASE p = "coursera" -> COURSERA_BASE \o item.url
    [] p = "edx" -> item.marketing_url
    [] p = "udemy" -> item.urlCourseLanding
    [] p = "youtube" -> YOUTUBE_WATCH \o item.id

\* the items of the last upstream answer platform p consumed
LastItems(p) == stub[p][calls[p]].items

SearchIds == SelectSeq(stub["youtube"][1].items, LAMBDA x : x # None)

\* C12: the records of an adapter stand in the relative order of the
\* upstream items they came from (skipped items taken out); for YouTube the
\* order is that of the identifiers the search call returned, in whatever
\* order the details call lists the videos.
UpstreamOrderKept ==
  /\ \A p \in Platforms :
       (Ended(p) /\ calls[p] >= 1 /\ courses[p] # <<>>) =>
         IsSubseq(UrlsOf(courses[p]),
                  [i \in 1..Len(LastItems(p)) |-> ItemUrl(p, LastItems(p)[i])])
  /\ (/\ Ended("youtube") /\ calls["youtube"] = 2
      /\ {LastItems("youtube")[i].id : i \in 1..Len(LastItems("youtube"))}
           = {SearchIds[i] : i \in 1..Len(SearchIds)}) =>
       IsSubseq(UrlsOf(courses["youtube"]),
                [i \in 1..Len(SearchIds) |-> YOUTUBE_WATCH \o SearchIds[i]])

\* C13: two calls of search_courses with the same query, lang and num_items
\* against an upstream that answers the same way return the same mapping,
\* however many other requests were handled before or between them.
SameRequestSameAnswer ==
  (/\ Done /\ prev.status # 0
   /\ q = prev.q /\ lang = prev.lang /\ num_items = prev.num_items) =>
    /\ response.status = prev.status
    /\ response.results = prev.results

SameRequestSameAnswerWitness ==
  /\ Done /\ run = 3 /\ prev.status = 200 /\ prev.run = 1
  /\ q = prev.q /\ lang = prev.lang /\ num_items = prev.num_items
  /\ yt_client
  /\ Len(response.results["youtube"].courses) = 2
  /\ Len(response.results["edx"].courses) = 2

\* a Coursera hit that is complete but for its partners and partnerLogos,
\* which may be empty arrays
CompleteButPartners(item) ==
  /\ item.isdict /\ item.name # None /\ ~Falsy(item.url)
  /\ item.imageUrl = IMG

\* C14: parse_coursera_response turns an item whose partners and
\* partnerLogos arrays are present but empty into a record with provider and
\* provider_img absent; the item is kept and so are the other items.
EmptyPartnersKept ==
  (/\ pPhase = "parsed" /\ pPlatform = "coursera"
   /\ \A i \in 1..Len(pBatch) : CompleteButPartners(pBatch[i])) =>
    /\ pResult.exc = "none"
    /\ Len(pResult.courses) = Len(pBatch)
    /\ \A i \in 1..Len(pBatch) :
         (pBatch[i].partners = <<>> /\ pBatch[i].partnerLogos = <<>>) =>
           /\ pResult.courses[i].provider = None
           /\ pResult.courses[i].provider_img = None

\* C15: a Udemy item whose durationInSeconds is an integer s >= 0 yields a
\* record whose duration is "<H>h <M>m", H = s div 3600 and
\* M = (s mod 3600) div 60; 5400 gives "1h 30m".
UdemyDurationFormatted ==
  (pPhase = "parsed" /\ pPlatform = "udemy") =>
    \A s \in SecondsSamples :
      pBatch = <<[UItemA EXCEPT !.durationInSeconds = {s}]>> =>
        /\ pResult.exc = "none"
        /\ Len(pResult.courses) = 1
        /\ pResult.courses[1].duration =
             IntToStr(s \div 3600) \o <<"h", " ">>
               \o IntToStr((s % 3600) \div 60) \o <<"m">>
        /\ (s = 5400 =>
              pResult.courses[1].duration = <<"1", "h", " ", "3", "0", "m">>)

\* the number a component of a duration token stands for
ComponentValue(n) ==
  CASE n = <<>> -> 0
    [] n = <<"0">> -> 0
    [] n = <<"1">> -> 1
    [] n = <<"5">> -> 5
    [] n = <<"0", "7">> -> 7
    [] n = <<"4", "5">> -> 45

PT1H5M == <<"P", "T", "1", "H", "5", "M">>
PT45S == <<"P", "T", "4", "5", "S">>

\* C16: convert_youtube_duration turns a token PT[#H][#M][#S] into
\* "<h>h <m>m" if the hours are above 0, else "<m>m" if the minutes are above
\* 0, else "<s>s", a left-out component counting as 0; "PT1H5M" gives
\* "1h 5m", "PT45S" gives "45s", and a token that does not start with PT
\* gives no duration.  The record of the video carries that duration.
YoutubeDurationConverted ==
  (/\ pPhase = "parsed" /\ pPlatform = "youtube" /\ Len(pBatch) = 1
   /\ pBatch[1].duration # None
   /\ pBatch[1] = [YItemA EXCEPT !.duration = pBatch[1].duration]) =>
    LET token == pBatch[1].duration
        result == convert_youtube_duration(token)
    IN /\ Len(pResult.courses) = 1
       /\ (token # <<>> => pResult.courses[1].duration = result)
       /\ \A h \in ComponentSamples, m \in ComponentSamples,
             sec \in ComponentSamples :
            token = <<"P", "T">> \o Component(h, "H") \o Component(m, "M")
                      \o Component(sec, "S") =>
              result =
                IF ComponentValue(h) > 0
                THEN IntToStr(ComponentValue(h)) \o <<"h", " ">>
                       \o IntToStr(ComponentValue(m)) \o <<"m">>
                ELSE IF ComponentValue(m) > 0
                THEN IntToStr(ComponentValue(m)) \o <<"m">>
                ELSE IntToStr(ComponentValue(sec)) \o <<"s">>
       /\ (token = PT1H5M => result = <<"1", "h", " ", "5", "m">>)
       /\ (token = PT45S => result = <<"4", "5", "s">>)
       /\ ((Len(token) < 2 \/ token[1] # "P" \/ token[2] # "T") =>
             result = None)

YoutubeDurationConvertedWitness ==
  /\ pPhase = "parsed" /\ pPlatform = "youtube"
  /\ pBatch = <<[YItemA EXCEPT !.duration = PT45S]>>
  /\ Len(pResult.courses) = 1
  /\ pResult.courses[1].duration = <<"4", "5", "s">>

\* C17: within one get_youtube_courses call the details call is issued only
\* after the search call has completed, at most once, and with exactly the
\* identifiers the search returned, in that order; when the search fails or
\* yields no identifier no details call is issued and the result is empty;
\* when the details call fails the result is empty.
YoutubePipeline ==
  /\ Len(yt_requests) <= 2
  /\ \A i \in 1..Len(yt_requests) :
       yt_requests[i].method = "videos" =>
         /\ i = 2 /\ yt_requests[1].method = "search"
         /\ st["youtube"] # "search"
         /\ SearchIds # <<>>
         /\ yt_requests[i].id = JoinIds(SearchIds)
         /\ (stub["youtube"][1].items = << <<"v1">>, None, <<"v2">> >> =>
               yt_requests[i].id = <<"v1", ",", "v2">>)
  /\ (Ended("youtube") /\ SearchIds = <<>>) =>
       /\ Len(yt_requests) <= 1
       /\ courses["youtube"] = <<>>
  /\ (Ended("youtube") /\ Len(yt_requests) = 2
        /\ stub["youtube"][2].kind # "ok") =>
       courses["youtube"] = <<>>

YoutubePipelineWitness ==
  /\ Ended("youtube")
  /\ stub["youtube"][1].items = << <<"v1">>, None, <<"v2">> >>
  /\ Len(yt_requests) = 2
  /\ yt_requests[2].id = <<"v1", ",", "v2">>
  /\ Len(courses["youtube"]) = 2

\* the parse step of platform p on a batch
ParseOf(p, batch) ==
  CASE p = "coursera" -> parse_coursera_response(Elements(batch))
    [] p = "udemy" -> parse_udemy_response(Elements(batch))
    [] p = "edx" -> Ok(parse_edx_response(Elements(batch)))
    [] p = "youtube" -> Ok(parse_youtube_response(Elements(batch)))

\* the records the items of a batch yield when each is parsed on its own
RECURSIVE EachAlone(_, _)
EachAlone(p, batch) ==
  IF batch = <<>> THEN <<>>
  ELSE ParseOf(p, <<Head(batch)>>).courses \o EachAlone(p, Tail(batch))

\* C18: in every parser, whether an item is skipped and every field of its
\* record depend on that item alone, not on its position or on the items
\* before it: a batch yields the records its items yield one by one (a
\* Udemy item without rating has no avg_rating, an edX item without owners
\* no provider_img, whatever came before).
ItemsParsedIndependently ==
  (pPhase = "parsed" /\ pResult.exc = "none") =>
    /\ \A i \in 1..Len(pBatch) :
         ParseOf(pPlatform, <<pBatch[i]>>).exc = "none"
    /\ pResult.courses = EachAlone(pPlatform, pBatch)

====
